---------------------------- MODULE Spec2Model ----------------------------
(***************************************************************************)
(* Model of the real-time interaction plane of the live-streaming          *)
(* platform: the Stream Lifecycle Controller (stream-management-service)   *)
(* and the chat-service (Chatroom Service and WebSocket fan-out Hub).      *)
(*                                                                         *)
(* The specifications of the module:                                       *)
(*   SpecStream    RTMP webhooks, stream RPCs, viewer-count API and reaper *)
(*   SpecReaper    the cleanup task running for ever beside the requests   *)
(*   SpecUpdates   stream updates with other requests between read and put *)
(*   SpecIngest    ingest after ingest on the same keys (webhooks only)    *)
(*   SpecShutdown  the cleanup task and the shutdown of the process        *)
(*   SpecHub       the WebSocket hub: clients, rooms, bounded send queues  *)
(*   SpecHubFair   SpecHub with a reader that returns when it can          *)
(*   SpecEvict     the hub with clients that read nothing, one more message*)
(*   SpecHubClose  SpecHub with Hub.Close                                  *)
(*   SpecChat      chatroom membership (DynamoDB chatroom items)           *)
(*   SpecMessages  chatroom membership with SendMessage and GetMessages    *)
(***************************************************************************)
EXTENDS Integers, Sequences, FiniteSets, TLC

VARIABLES
    main,         \* where main of the stream service is: serving, stopping
                  \* (the signal was received), or exited
    streams,      \* DynamoDB stream table: sequence of items, item id = index
    streamData,   \* Redis "stream:<id>" entries: id -> [rec, exp]
    sessions,     \* Redis "session:<key>" entries: key -> session record
    now,          \* wall clock, in seconds
    ticks,        \* number of clock advances so far
    budget,       \* number of requests and reaper sweeps still followed
    faults,       \* number of failed Redis / DynamoDB / Kinesis calls so far
    last,         \* the request answered last: its response, and the events
                  \* it put to the Kinesis event sink
    pending,      \* the update of a stream that has read the item and has
                  \* not put it yet
    clients,      \* Hub.clients: the registered clients
    rooms,        \* Hub.rooms: room id -> set of clients (a key may hold {})
    clientRooms,  \* Client.rooms of every client
    send,         \* Client.send of every client: the buffered channel's content
    closed,       \* whether Client.send has been closed
    pumps,        \* which of the client's readPump / writePump goroutines run
    written,      \* the messages writePump wrote to the client's socket
    msgs,         \* number of messages handed to the hub so far
    owed,         \* per client: the messages broadcast to a set it was in
    panicked,     \* a goroutine of the chat process has panicked
    hubLast,      \* the hub operation run last, with the clients it evicted
    chatrooms,    \* DynamoDB chatroom table: chatroom id -> item
    calls,        \* the Chatroom Service RPCs in progress, one per handler
    started,      \* number of Chatroom Service RPCs started so far
    latest,       \* per chatroom and user, the latest join or leave that succeeded
    chatLast,     \* the Chatroom Service RPC answered last: its status and
                  \* the messages it returned
    messages,     \* DynamoDB message table: the set of items
    cache,        \* Redis "chatroom:<id>:messages" sorted sets, lowest rank first
    chatNow       \* wall clock of the chat process, in half seconds

streamVars == <<main, streams, streamData, sessions, now, ticks, budget, faults,
                last, pending>>
hubVars == <<clients, rooms, clientRooms, send, closed, pumps, written, msgs,
             owed, panicked, hubLast>>
msgVars == <<messages, cache, chatNow>>
chatVars == <<chatrooms, calls, started, latest, chatLast, msgVars>>
vars == <<streamVars, hubVars, chatVars>>

-----------------------------------------------------------------------------
(* Bounds of the model *)

MaxStreams == 2
MaxTicks == 1
MaxOps == 3
MaxFaults == 1
\* the number of stream updates followed from their read to their put, other
\* requests being served in between
MaxUpdates == 1
\* the capacity every Client.send has in the model (256 in the program,
\* part_004 line 68: make(chan []byte, 256))
QClient == 1
MaxMsgs == 2
MaxCalls == 4
\* the number of messages the cache of a chatroom keeps in the model (100 in
\* the program, part_002 line 79: ZRemRangeByRank(ctx, key, 0, -101))
CacheCap == 2

-----------------------------------------------------------------------------
(* Program constants *)

SessionTTL == 3600
StreamDataTTLLong == 86400
StreamDataTTLShort == 3600
ReaperStartedAge == 43200
ReaperIdleAge == 3600
DevFallbackMinKeyLen == 10
DevFallbackUserID == 1001

\* a nil *time.Time (StartedAt / EndedAt unset); the clock starts at 1
NoTime == 0
\* "no stream_id in the session" / "no stream"
NoStream == 0

-----------------------------------------------------------------------------
(* Inputs *)

StreamKeys == {"key07", "streamkey08"}
KeyOwner(k) == IF k = "key07" THEN 7 ELSE 8
UserIDs == {7, 8, DevFallbackUserID}

\* the "name" field of a webhook, split at "/": bare key or app/key
Names == {<<k>> : k \in StreamKeys} \cup {<<"live", k>> : k \in StreamKeys}

GrpcReplies == {"no_client", "transport_error", "status_404", "status_error",
                "not_valid", "valid"}
HttpReplies == {"transport_error", "status_5xx", "status_4xx", "bad_body",
                "valid_false", "valid_true"}

\* the "duration" form field of a webhook: absent, not a number, or a number
DurationStrings == {[kind |-> "empty", val |-> 0], [kind |-> "text", val |-> 0],
                    [kind |-> "num", val |-> 0], [kind |-> "num", val |-> 30]}
\* a request without a duration field
NoDuration == [kind |-> "empty", val |-> 0]
RpcDurations == {0, 30}
ViewerCounts == {0, 5}
RecordingPaths == {"", "rec.flv"}
ReqStatuses == {"STREAM_PENDING", "STREAM_LIVE", "STREAM_ENDED", "STREAM_ERROR",
                "UNRECOGNIZED"}
TickSteps == {2, ReaperStartedAge + 1}

-----------------------------------------------------------------------------
(* Pure helpers of the stream-management-service *)

\* RTMPHandler.extractStreamKey: the last path segment of the name
extractStreamKey(name) == name[Len(name)]

\* strconv.ParseInt with the error branch leaving the default 0
ParseDuration(d) == IF d.kind = "num" THEN d.val ELSE 0

Result(valid, uid, err) == [valid |-> valid, user_id |-> uid, err |-> err]

\* UserServiceClient.developmentFallback
developmentFallback(streamKey) ==
    IF Len(streamKey) >= DevFallbackMinKeyLen
    THEN Result(TRUE, DevFallbackUserID, FALSE)
    ELSE Result(FALSE, 0, FALSE)

\* validateStreamKeyGRPC without its test of resp.IsValid: every answer that
\* carries a success status counts as valid
validateStreamKeyGRPC_NoIsValidTest(streamKey, g) ==
    CASE g = "valid" -> Result(TRUE, KeyOwner(streamKey), FALSE)
      [] g = "not_valid" -> Result(TRUE, KeyOwner(streamKey), FALSE)
      [] g = "status_404" -> Result(FALSE, 0, FALSE)
      [] OTHER -> Result(FALSE, 0, TRUE)

\* UserServiceClient.validateStreamKeyGRPC
validateStreamKeyGRPC(streamKey, g) ==
    CASE g = "valid" -> Result(TRUE, KeyOwner(streamKey), FALSE)
      [] g = "not_valid" -> Result(FALSE, 0, FALSE)
      [] g = "status_404" -> Result(FALSE, 0, FALSE)
      [] OTHER -> Result(FALSE, 0, TRUE)

\* UserServiceClient.validateStreamKeyHTTP
validateStreamKeyHTTP(streamKey, h) ==
    CASE h = "transport_error" -> developmentFallback(streamKey)
      [] h = "status_5xx" -> developmentFallback(streamKey)
      [] h = "status_4xx" -> Result(FALSE, 0, TRUE)
      [] h = "bad_body" -> Result(FALSE, 0, TRUE)
      [] h = "valid_true" -> Result(TRUE, KeyOwner(streamKey), FALSE)
      [] OTHER -> Result(FALSE, 0, FALSE)

\* UserServiceClient.ValidateStreamKey: gRPC first, HTTP on a gRPC error
ClientValidateStreamKey(streamKey, g, h) ==
    LET r == validateStreamKeyGRPC(streamKey, g)
    IN IF g # "no_client" /\ ~r.err THEN r ELSE validateStreamKeyHTTP(streamKey, h)

\* RTMPHandler.validateStreamKey: a failed first call is repeated once
\* through RTMPHandler.validateStreamKeyHTTP
validateStreamKey(streamKey, g1, h1, g2, h2) ==
    LET r == ClientValidateStreamKey(streamKey, g1, h1)
    IN IF ~r.err THEN r ELSE ClientValidateStreamKey(streamKey, g2, h2)

\* What the User directory itself answered, read off the replies on the wire
GrpcFailed(g) == g \in {"no_client", "transport_error", "status_error"}
GrpcDown(g) == g \in {"no_client", "transport_error"}
AttemptInvalid(g, h) ==
    g \in {"not_valid", "status_404"} \/ (GrpcFailed(g) /\ h = "valid_false")
AttemptUnreachable(g, h) == GrpcDown(g) /\ h = "transport_error"
AttemptErrored(g, h) == GrpcFailed(g) /\ h \in {"status_4xx", "bad_body"}
DirectoryAnswer(g1, h1, g2, h2) ==
    CASE AttemptInvalid(g1, h1) -> "invalid"
      [] AttemptUnreachable(g1, h1) -> "unreachable"
      [] AttemptErrored(g1, h1) /\ GrpcDown(g1) /\ AttemptInvalid(g2, h2) -> "invalid"
      [] AttemptErrored(g1, h1) /\ GrpcDown(g1) /\ AttemptUnreachable(g2, h2) -> "unreachable"
      [] OTHER -> "other"

\* models.Stream, with the fields the controller reads or writes
StreamRec(uid, key, status, sa, ea, dur, vc, rec, ua) ==
    [user_id |-> uid, stream_key |-> key, status |-> status, started_at |-> sa,
     ended_at |-> ea, duration |-> dur, viewer_count |-> vc,
     recording_url |-> rec, updated_at |-> ua]

StreamIDs == 1..Len(streams)
AnyStreamID == 1..MaxStreams

\* StreamGRPCServer.grpcToModelStatus
grpcToModelStatus(s) ==
    CASE s = "STREAM_PENDING" -> "pending"
      [] s = "STREAM_LIVE" -> "live"
      [] s = "STREAM_ENDED" -> "ended"
      [] s = "STREAM_ERROR" -> "error"
      [] OTHER -> "pending"

\* RedisRepository.SetStreamData / SetStreamSession (SET key value EX ttl)
SetStreamData(id, rec, ttl) == (id :> [rec |-> rec, exp |-> now + ttl]) @@ streamData
StoreStreamSession(key, sess) == (key :> [sess EXCEPT !.exp = now + SessionTTL]) @@ sessions

\* Redis key expiry at time t
Unexpired(store, t) == [x \in {y \in DOMAIN store : store[y].exp > t} |-> store[x]]

\* StreamService.GetStreamByIDInternal: cache first, DynamoDB as fallback
GetStreamByIDInternal(id, F) ==
    IF "cache_get" \notin F /\ id \in DOMAIN streamData
    THEN [ok |-> TRUE, rec |-> streamData[id].rec]
    ELSE IF "dynamo_get" \notin F /\ id \in StreamIDs
         THEN [ok |-> TRUE, rec |-> streams[id]]
         ELSE [ok |-> FALSE, rec |-> StreamRec(0, "", "", 0, 0, 0, 0, "", 0)]

\* DynamoDBRepository.GetStreamByStreamKey: the items a query on the
\* stream-key index with Limit 1 can return
StreamsWithKey(key) == {i \in StreamIDs : streams[i].stream_key = key}

\* DynamoDBRepository.GetStreamsByStatus
GetStreamsByStatus(status) == {i \in StreamIDs : streams[i].status = status}

\* StreamService.GetActiveStreamsInternal
GetActiveStreams == GetStreamsByStatus("live")

\* StreamGRPCServer.GetStream
GetStream(id) == GetStreamByIDInternal(id, {})

Event(type, sid, key) == [type |-> type, sid |-> sid, key |-> key]
\* StreamService.PublishEvent: the record reaches the sink unless the put fails
PublishEvent(ev, F) == IF "kinesis" \notin F THEN {ev} ELSE {}

\* The answer to a request: op and key name the request, code is the HTTP
\* status or gRPC status code, sid the stream_id of the response, pre the
\* stream_id the session held before the request, target the stream item the
\* request wrote, dir the directory's answer, pub the events published, dur
\* the duration field of the request, failed the calls of a webhook that
\* failed
Response(op, key, code) ==
    [op |-> op, key |-> key, code |-> code, sid |-> NoStream, pre |-> NoStream,
     target |-> NoStream, dir |-> "", pub |-> {}, dur |-> NoDuration,
     failed |-> {}]

\* The calls of one request that fail: any of the calls it may make, within
\* the budget of failures left
Failing(made) == {F \in SUBSET made : Cardinality(F) <= MaxFaults - faults}

\* one more request (or reaper sweep) is served, F being its failed calls
Request(F) ==
    /\ main # "exited"
    /\ budget' = budget - 1
    /\ UNCHANGED <<main, hubVars, chatVars>>
    /\ faults' = faults + Cardinality(F)
    /\ UNCHANGED pending

\* StreamService.UpdateStreamInternal: DynamoDB put of the whole item, then
\* the cache (a cache failure is ignored)
UpdateStreamInternal(id, rec, F) ==
    /\ streams' = [streams EXCEPT ![id] = rec]
    /\ streamData' = IF "cache_set" \notin F
                     THEN SetStreamData(id, rec, StreamDataTTLLong)
                     ELSE streamData

\* StreamService.CreateStream: new id, DynamoDB put, then the cache
CreateStream(rec, F) ==
    /\ streams' = Append(streams, rec)
    /\ streamData' = IF "cache_set" \notin F
                     THEN SetStreamData(Len(streams) + 1, rec, StreamDataTTLLong)
                     ELSE streamData

\* an EndStream that leaves the duration of the item as it was
EndStreamRec_KeepsDuration(rec, durationSec) ==
    [rec EXCEPT !.status = "ended", !.ended_at = now, !.updated_at = now]

\* StreamService.EndStream: the item the webhook path writes
EndStreamRec(rec, durationSec) ==
    [rec EXCEPT !.status = "ended", !.ended_at = now, !.duration = durationSec,
                !.updated_at = now]

\* the item StreamService.UpdateViewerCount builds from the one it read
ViewerCountRec(rec, viewerCount) ==
    [rec EXCEPT !.viewer_count = viewerCount, !.updated_at = now]

\* the item StreamGRPCServer.UpdateStream builds from the one it read
UpdateStreamRec(rec, status, vc, dur) ==
    LET s1 == IF status # "STREAM_PENDING"
              THEN [rec EXCEPT !.status = grpcToModelStatus(status)]
              ELSE rec
        s2 == IF vc > 0 THEN [s1 EXCEPT !.viewer_count = vc] ELSE s1
        s3 == IF dur > 0 THEN [s2 EXCEPT !.duration = dur] ELSE s2
    IN [s3 EXCEPT !.updated_at = now]

\* the item StreamGRPCServer.RecordingCompleted builds from the one it read
RecordingRec(rec, path) == [rec EXCEPT !.recording_url = path, !.updated_at = now]

\* an update between its read and its put: the request, the item it read and
\* the item it is going to put; n counts the updates followed so far
Update(op, id, read, rec, n) == [op |-> op, id |-> id, read |-> read, rec |-> rec, n |-> n]
NoUpdate(n) == Update("none", NoStream, <<>>, <<>>, n)

\* an EndStream that does not look at the outcome of its put
EndStreamFails_PutIgnored(streamKey, F) ==
    \/ "dynamo_get" \in F
    \/ StreamsWithKey(streamKey) = {}

\* StreamService.EndStream returns an error: the stream is not found by its
\* key, or the put of the item fails
EndStreamFails(streamKey, F) ==
    \/ "dynamo_get" \in F
    \/ StreamsWithKey(streamKey) = {}
    \/ "dynamo_put" \in F

-----------------------------------------------------------------------------
(* Stream Lifecycle Controller: requests *)

\* The state after construction, ops being the number of requests followed
InitStreamWith(ops) ==
    /\ main = "serving"
    /\ streams = <<>>
    /\ streamData = <<>>
    /\ sessions = <<>>
    /\ now = 1
    /\ ticks = 0
    /\ budget = ops
    /\ faults = 0
    /\ last = Response("init", "", "")
    /\ pending = NoUpdate(0)

InitStream == InitStreamWith(MaxOps)

\* Time passes; Redis drops the entries whose TTL has run out
Tick ==
    \E d \in TickSteps :
        /\ ticks < MaxTicks
        /\ now' = now + d
        /\ ticks' = ticks + 1
        /\ streamData' = Unexpired(streamData, now + d)
        /\ sessions' = Unexpired(sessions, now + d)
        /\ last' = Response("tick", "", "")
        /\ UNCHANGED <<streams, budget, faults, pending>>
        /\ UNCHANGED <<main, hubVars, chatVars>>

\* Every (validation result, directory answer) pair the replies of the User
\* directory can produce for a stream key
AuthOutcomes ==
    [k \in StreamKeys |->
        {[v |-> validateStreamKey(k, g1, h1, g2, h2),
          dir |-> DirectoryAnswer(g1, h1, g2, h2)] :
            g1 \in GrpcReplies, h1 \in HttpReplies,
            g2 \in GrpcReplies, h2 \in HttpReplies}]

\* POST /rtmp/auth
AuthenticateStream ==
    /\ budget > 0
    /\ \E name \in Names, F \in Failing({"session_set"}) :
      \E out \in AuthOutcomes[extractStreamKey(name)] :
        LET streamKey == extractStreamKey(name)
            v == out.v
            sessionData == [user_id |-> v.user_id, stream_id |-> NoStream, exp |-> 0]
            resp(code) == [Response("auth", streamKey, code) EXCEPT !.dir = out.dir]
        IN  /\ IF v.err
               THEN /\ last' = resp("500")
                    /\ UNCHANGED sessions
               ELSE IF ~v.valid
               THEN /\ last' = resp("403")
                    /\ UNCHANGED sessions
               ELSE /\ sessions' = IF "session_set" \notin F
                                   THEN StoreStreamSession(streamKey, sessionData)
                                   ELSE sessions
                    /\ last' = resp("200")
            /\ UNCHANGED <<streams, streamData, now, ticks>>
            /\ Request(F)

\* POST /rtmp/started
StreamStarted ==
    /\ budget > 0
    /\ \E name \in Names,
       F \in Failing({"session_get", "dynamo_put", "cache_set", "session_set", "kinesis"}) :
        LET streamKey == extractStreamKey(name)
            streamID == Len(streams) + 1
            resp(code) == [Response("started", streamKey, code) EXCEPT !.failed = F]
        IN  /\ Len(streams) < MaxStreams
            /\ IF "session_get" \in F \/ streamKey \notin DOMAIN sessions
               THEN /\ last' = resp("500")
                    /\ UNCHANGED <<streams, streamData, sessions>>
               ELSE LET sessionData == sessions[streamKey]
                        stream == StreamRec(sessionData.user_id, streamKey, "live", now,
                                            NoTime, 0, 0, "", now)
                    IN IF "dynamo_put" \in F
                       THEN /\ last' = [resp("500") EXCEPT !.pre = sessionData.stream_id]
                            /\ UNCHANGED <<streams, streamData, sessions>>
                       ELSE /\ CreateStream(stream, F)
                            /\ sessions' =
                                 IF "session_set" \notin F
                                 THEN StoreStreamSession(streamKey,
                                        [sessionData EXCEPT !.stream_id = streamID])
                                 ELSE sessions
                            /\ last' = [resp("200") EXCEPT
                                          !.sid = streamID, !.target = streamID,
                                          !.pre = sessionData.stream_id,
                                          !.pub = PublishEvent(
                                             Event("stream_started", streamID, streamKey), F)]
            /\ UNCHANGED <<now, ticks>>
            /\ Request(F)

\* POST /rtmp/ended
StreamEnded ==
    /\ budget > 0
    /\ \E name \in Names, duration \in DurationStrings,
       F \in Failing({"session_get", "dynamo_get", "dynamo_put", "cache_set",
                      "session_del", "kinesis"}) :
        LET streamKey == extractStreamKey(name)
            resp(code) == [Response("ended", streamKey, code) EXCEPT !.failed = F]
            durationSec == ParseDuration(duration)
        IN  /\ IF "session_get" \in F \/ streamKey \notin DOMAIN sessions
               THEN /\ last' = resp("500")
                    /\ UNCHANGED <<streams, streamData, sessions>>
               ELSE IF sessions[streamKey].stream_id = NoStream
               THEN /\ last' = resp("500")
                    /\ UNCHANGED <<streams, streamData, sessions>>
               ELSE IF EndStreamFails(streamKey, F)
               THEN /\ last' = [resp("500") EXCEPT !.pre = sessions[streamKey].stream_id]
                    /\ UNCHANGED <<streams, streamData, sessions>>
               ELSE \E id \in StreamsWithKey(streamKey) :
                      LET rec == EndStreamRec(streams[id], durationSec)
                          streamID == sessions[streamKey].stream_id
                      IN /\ streams' = [streams EXCEPT ![id] = rec]
                         /\ streamData' = IF "cache_set" \notin F
                                          THEN SetStreamData(id, rec, StreamDataTTLShort)
                                          ELSE streamData
                         /\ sessions' = IF "session_del" \notin F
                                        THEN [k \in DOMAIN sessions \ {streamKey} |->
                                                sessions[k]]
                                        ELSE sessions
                         /\ last' = [resp("200") EXCEPT
                                       !.sid = streamID, !.pre = streamID, !.target = id,
                                       !.dur = duration,
                                       !.pub = PublishEvent(Event("stream_ended", id, ""), F)
                                          \cup PublishEvent(
                                                 Event("stream_ended", streamID, streamKey), F)]
            /\ UNCHANGED <<now, ticks>>
            /\ Request(F)

\* POST /rtmp/recorded (StreamService.UpdateStreamRecording)
RecordingCompletedHook ==
    /\ budget > 0
    /\ \E name \in Names, file \in RecordingPaths,
       F \in Failing({"dynamo_get", "dynamo_put", "cache_set", "kinesis"}) :
        LET streamKey == extractStreamKey(name)
            resp(code) == [Response("recorded", streamKey, code) EXCEPT !.failed = F]
        IN  /\ IF \/ "dynamo_get" \in F
                  \/ StreamsWithKey(streamKey) = {}
                  \/ "dynamo_put" \in F
               THEN /\ last' = resp("500")
                    /\ UNCHANGED <<streams, streamData>>
               ELSE \E id \in StreamsWithKey(streamKey) :
                      LET rec == [streams[id] EXCEPT !.recording_url = file,
                                                     !.updated_at = now]
                      IN /\ streams' = [streams EXCEPT ![id] = rec]
                         /\ streamData' = IF "cache_set" \notin F
                                          THEN SetStreamData(id, rec, StreamDataTTLShort)
                                          ELSE streamData
                         /\ last' = [resp("200") EXCEPT
                                       !.target = id,
                                       !.pub = PublishEvent(
                                          Event("recording_completed", NoStream, streamKey),
                                          F)]
            /\ UNCHANGED <<sessions, now, ticks>>
            /\ Request(F)

\* the calls a read-modify-write of one stream item makes
UpdateCalls == {"cache_get", "dynamo_get", "dynamo_put", "cache_set"}

\* POST /api/v1/streams/:id/viewers (StreamService.UpdateViewerCount)
UpdateViewerCount ==
    /\ budget > 0
    /\ \E id \in AnyStreamID, viewerCount \in ViewerCounts, F \in Failing(UpdateCalls) :
        LET got == GetStreamByIDInternal(id, F)
            resp(code) == Response("viewers", "", code)
        IN  /\ IF ~got.ok \/ "dynamo_put" \in F
               THEN /\ last' = resp("500")
                    /\ UNCHANGED <<streams, streamData>>
               ELSE /\ UpdateStreamInternal(id, [got.rec EXCEPT !.viewer_count = viewerCount,
                                                               !.updated_at = now], F)
                    /\ last' = [resp("200") EXCEPT !.target = id]
            /\ UNCHANGED <<sessions, now, ticks>>
            /\ Request(F)

\* gRPC CreateStream
RpcCreateStream ==
    /\ budget > 0
    /\ \E uid \in UserIDs, key \in StreamKeys, F \in Failing({"dynamo_put", "cache_set"}) :
        LET stream == StreamRec(uid, key, "live", now, NoTime, 0, 0, "", now)
            resp(code) == Response("CreateStream", key, code)
        IN  /\ Len(streams) < MaxStreams
            /\ IF "dynamo_put" \in F
               THEN /\ last' = resp("Internal")
                    /\ UNCHANGED <<streams, streamData>>
               ELSE /\ CreateStream(stream, F)
                    /\ last' = [resp("OK") EXCEPT !.sid = Len(streams) + 1,
                                                  !.target = Len(streams) + 1]
            /\ UNCHANGED <<sessions, now, ticks>>
            /\ Request(F)

\* gRPC EndStream
RpcEndStream ==
    /\ budget > 0
    /\ \E id \in AnyStreamID, dur \in RpcDurations, path \in RecordingPaths,
       F \in Failing(UpdateCalls) :
        LET got == GetStreamByIDInternal(id, F)
            resp(code) == Response("EndStream", "", code)
            ended == [got.rec EXCEPT !.status = "ended", !.ended_at = now,
                                     !.duration = dur, !.updated_at = now]
            rec == IF path # "" THEN [ended EXCEPT !.recording_url = path] ELSE ended
        IN  /\ IF ~got.ok
               THEN /\ last' = resp("NotFound")
                    /\ UNCHANGED <<streams, streamData>>
               ELSE IF "dynamo_put" \in F
               THEN /\ last' = resp("Internal")
                    /\ UNCHANGED <<streams, streamData>>
               ELSE /\ UpdateStreamInternal(id, rec, F)
                    /\ last' = [resp("OK") EXCEPT !.target = id]
            /\ UNCHANGED <<sessions, now, ticks>>
            /\ Request(F)

\* gRPC UpdateStream
RpcUpdateStream ==
    /\ budget > 0
    /\ \E id \in AnyStreamID, status \in ReqStatuses, vc \in ViewerCounts,
       dur \in RpcDurations, F \in Failing(UpdateCalls) :
        LET got == GetStreamByIDInternal(id, F)
            resp(code) == Response("UpdateStream", "", code)
            s1 == IF status # "STREAM_PENDING"
                  THEN [got.rec EXCEPT !.status = grpcToModelStatus(status)]
                  ELSE got.rec
            s2 == IF vc > 0 THEN [s1 EXCEPT !.viewer_count = vc] ELSE s1
            s3 == IF dur > 0 THEN [s2 EXCEPT !.duration = dur] ELSE s2
            rec == [s3 EXCEPT !.updated_at = now]
        IN  /\ IF ~got.ok
               THEN /\ last' = resp("NotFound")
                    /\ UNCHANGED <<streams, streamData>>
               ELSE IF "dynamo_put" \in F
               THEN /\ last' = resp("Internal")
                    /\ UNCHANGED <<streams, streamData>>
               ELSE /\ UpdateStreamInternal(id, rec, F)
                    /\ last' = [resp("OK") EXCEPT !.target = id]
            /\ UNCHANGED <<sessions, now, ticks>>
            /\ Request(F)

\* gRPC RecordingCompleted
RpcRecordingCompleted ==
    /\ budget > 0
    /\ \E id \in AnyStreamID, path \in RecordingPaths, F \in Failing(UpdateCalls) :
        LET got == GetStreamByIDInternal(id, F)
            resp(code) == [Response("RecordingCompleted", "", code) EXCEPT !.failed = F]
            rec == [got.rec EXCEPT !.recording_url = path, !.updated_at = now]
        IN  /\ IF ~got.ok
               THEN /\ last' = resp("NotFound")
                    /\ UNCHANGED <<streams, streamData>>
               ELSE IF "dynamo_put" \in F
               THEN /\ last' = resp("Internal")
                    /\ UNCHANGED <<streams, streamData>>
               ELSE /\ UpdateStreamInternal(id, rec, F)
                    /\ last' = [resp("OK") EXCEPT !.target = id]
            /\ UNCHANGED <<sessions, now, ticks>>
            /\ Request(F)

\* an expiry test that only looks at the age of the stream
Expired_StartedOnly(rec) ==
    /\ rec.started_at # NoTime
    /\ now - rec.started_at > ReaperStartedAge

\* StreamService.CleanupExpiredStreams: the expiry test of one live stream
Expired(rec) ==
    /\ rec.started_at # NoTime
    /\ now - rec.started_at > ReaperStartedAge
    /\ rec.updated_at < now - ReaperIdleAge

\* a reaper item that leaves the duration as it was
CleanupRec_KeepsDuration(rec) ==
    [rec EXCEPT !.status = "ended", !.ended_at = now, !.updated_at = now]

\* the item the reaper writes for an expired stream
CleanupRec(rec) ==
    [rec EXCEPT !.status = "ended", !.ended_at = now,
                !.duration = now - rec.started_at, !.updated_at = now]

\* The calls a reaper sweep makes
SweepCalls == {"dynamo_get", "dynamo_put", "cache_set", "kinesis"}

\* StreamService.CleanupExpiredStreams, F being its failed calls: one pass over
\* the live streams DynamoDB lists. A stream whose put fails is skipped; the
\* pass goes on with the next one
Sweep(F) ==
    LET live == IF "dynamo_get" \notin F THEN GetStreamsByStatus("live") ELSE {}
        expired == {i \in live : Expired(streams[i])}
    IN \E failed \in SUBSET expired :
        LET done == expired \ failed
        IN /\ ("dynamo_put" \in F) = (failed # {})
           /\ streams' = [i \in StreamIDs |->
                            IF i \in done THEN CleanupRec(streams[i]) ELSE streams[i]]
           /\ streamData' =
                IF "cache_set" \notin F
                THEN [i \in DOMAIN streamData \cup done |->
                        IF i \in done
                        THEN [rec |-> CleanupRec(streams[i]),
                              exp |-> now + StreamDataTTLLong]
                        ELSE streamData[i]]
                ELSE streamData
           /\ last' = [Response("cleanup", "",
                                IF "dynamo_get" \notin F THEN "ok" ELSE "error") EXCEPT
                         !.pub = IF "kinesis" \notin F
                                 THEN {Event("stream_cleanup", i, "") : i \in done}
                                 ELSE {}]
           /\ UNCHANGED <<sessions, now, ticks>>

\* One reaper sweep, counted among the requests served
CleanupExpiredStreams ==
    /\ budget > 0
    /\ \E F \in Failing(SweepCalls) : Sweep(F) /\ Request(F)

\* The cleanup task of main: a sweep at each firing of its ticker, for as long
\* as the process runs
CleanupTask ==
    \E F \in Failing(SweepCalls) :
        /\ main # "exited"
        /\ Sweep(F)
        /\ faults' = faults + Cardinality(F)
        /\ UNCHANGED <<budget, pending>>
        /\ UNCHANGED <<main, hubVars, chatVars>>

\* main receives SIGINT or SIGTERM from its quit channel and starts to shut
\* the servers down
Quit ==
    /\ main = "serving"
    /\ main' = "stopping"
    /\ last' = Response("quit", "", "")
    /\ UNCHANGED <<streams, streamData, sessions, now, ticks, budget, faults, pending>>
    /\ UNCHANGED <<hubVars, chatVars>>

\* The servers have stopped, the connections are closed, and main returns:
\* the process and every goroutine of it end
MainReturns ==
    /\ main = "stopping"
    /\ main' = "exited"
    /\ last' = Response("exit", "", "")
    /\ UNCHANGED <<streams, streamData, sessions, now, ticks, budget, faults, pending>>
    /\ UNCHANGED <<hubVars, chatVars>>

\* The read of an update whose put comes later: GetStreamByIDInternal, rec
\* being the item the request makes of the one read
UpdateGet(op, id, rec, notFound, F) ==
    LET got == GetStreamByIDInternal(id, F)
    IN /\ main # "exited"
       /\ pending.op = "none"
       /\ pending.n < MaxUpdates
       /\ IF ~got.ok
          THEN /\ last' = Response(op, "", notFound)
               /\ pending' = NoUpdate(pending.n + 1)
          ELSE /\ pending' = Update(op, id, got.rec, rec, pending.n + 1)
               /\ UNCHANGED last
       /\ faults' = faults + Cardinality(F)
       /\ UNCHANGED <<streams, streamData, sessions, now, ticks, budget>>
       /\ UNCHANGED <<main, hubVars, chatVars>>

\* StreamService.UpdateViewerCount up to its call of UpdateStreamInternal
UpdateViewerCountGet ==
    \E id \in AnyStreamID, viewerCount \in ViewerCounts,
       F \in Failing({"cache_get", "dynamo_get"}) :
        UpdateGet("viewers", id,
                  ViewerCountRec(GetStreamByIDInternal(id, F).rec, viewerCount), "500", F)

\* StreamGRPCServer.UpdateStream up to its call of UpdateStreamInternal
RpcUpdateStreamGet ==
    \E id \in AnyStreamID, status \in ReqStatuses, vc \in ViewerCounts,
       dur \in RpcDurations, F \in Failing({"cache_get", "dynamo_get"}) :
        UpdateGet("UpdateStream", id,
                  UpdateStreamRec(GetStreamByIDInternal(id, F).rec, status, vc, dur),
                  "NotFound", F)

\* StreamGRPCServer.RecordingCompleted up to its call of UpdateStreamInternal
RpcRecordingCompletedGet ==
    \E id \in AnyStreamID, path \in RecordingPaths,
       F \in Failing({"cache_get", "dynamo_get"}) :
        UpdateGet("RecordingCompleted", id,
                  RecordingRec(GetStreamByIDInternal(id, F).rec, path), "NotFound", F)

\* The call of UpdateStreamInternal that ends the update in progress, and the
\* answer to its request
UpdateStreamPut ==
    /\ main # "exited"
    /\ pending.op # "none"
    /\ \E F \in Failing({"dynamo_put", "cache_set"}) :
         /\ IF "dynamo_put" \in F
            THEN /\ last' = Response(pending.op, "",
                                     IF pending.op = "viewers" THEN "500" ELSE "Internal")
                 /\ UNCHANGED <<streams, streamData>>
            ELSE /\ UpdateStreamInternal(pending.id, pending.rec, F)
                 /\ last' = [Response(pending.op, "",
                                      IF pending.op = "viewers" THEN "200" ELSE "OK")
                               EXCEPT !.target = pending.id]
         /\ faults' = faults + Cardinality(F)
    /\ pending' = NoUpdate(pending.n)
    /\ UNCHANGED <<sessions, now, ticks, budget>>
    /\ UNCHANGED <<main, hubVars, chatVars>>

NextStream ==
    \/ Tick
    \/ AuthenticateStream
    \/ StreamStarted
    \/ StreamEnded
    \/ RecordingCompletedHook
    \/ UpdateViewerCount
    \/ RpcCreateStream
    \/ RpcEndStream
    \/ RpcUpdateStream
    \/ RpcRecordingCompleted
    \/ CleanupExpiredStreams

\* The cleanup task running beside the requests that make a stream live, keep
\* it fresh (viewer counts) and end it
NextReaper ==
    \/ Tick
    \/ AuthenticateStream
    \/ StreamStarted
    \/ UpdateViewerCount
    \/ RpcCreateStream
    \/ RpcEndStream
    \/ CleanupTask

\* Updates of a stream that read the item, let other requests be served, and
\* then put it, beside the requests and the sweep that make a stream live and
\* end it
NextUpdates ==
    \/ Tick
    \/ AuthenticateStream
    \/ StreamStarted
    \/ StreamEnded
    \/ CleanupExpiredStreams
    \/ UpdateViewerCountGet
    \/ RpcUpdateStreamGet
    \/ RpcRecordingCompletedGet
    \/ UpdateStreamPut

\* The three RTMP webhooks of an ingest, and the passing of time
NextIngest ==
    \/ Tick
    \/ AuthenticateStream
    \/ StreamStarted
    \/ StreamEnded

\* The cleanup task and the requests of NextReaper, with the shutdown of the
\* process
NextShutdown ==
    \/ Tick
    \/ AuthenticateStream
    \/ StreamStarted
    \/ UpdateViewerCount
    \/ RpcCreateStream
    \/ RpcEndStream
    \/ CleanupTask
    \/ Quit
    \/ MainReturns

-----------------------------------------------------------------------------
(* Chat fan-out hub (chat-service, websocket.go) *)

Clients == {"c1", "c2"}
Rooms == {"r1", "r2"}
\* the target of a broadcast to every client
AllClients == "all"
\* a message: its number in the order of publication, and its target
Message(id, to) == [id |-> id, to |-> to]

\* a send on a buffered channel appends to its buffer
Enqueue(q, m) == Append(q, m)

\* the non-blocking send of broadcastMessage / BroadcastToRoom finds the
\* buffer full and takes the default branch
Full(c) == Len(send[c]) >= QClient

HubOp(op, c, r, evicted) == [op |-> op, client |-> c, room |-> r, evicted |-> evicted]

InitHub ==
    /\ clients = {}
    /\ rooms = <<>>
    /\ clientRooms = [c \in Clients |-> {}]
    /\ send = [c \in Clients |-> <<>>]
    /\ closed = [c \in Clients |-> FALSE]
    /\ pumps = [c \in Clients |-> "none"]
    /\ written = [c \in Clients |-> <<>>]
    /\ msgs = 0
    /\ owed = [c \in Clients |-> <<>>]
    /\ panicked = FALSE
    /\ hubLast = HubOp("init", "", "", {})

\* WebSocketHandler.HandleWebSocket: a new Client with an empty send channel
\* is registered (Hub.registerClient) and its two pumps are started
HandleWebSocket(c) ==
    /\ ~panicked
    /\ pumps[c] = "none"
    /\ clients' = clients \cup {c}
    /\ pumps' = [pumps EXCEPT ![c] = "both"]
    /\ hubLast' = HubOp("other", "", "", {})
    /\ UNCHANGED <<rooms, clientRooms, send, closed, written, msgs, owed, panicked>>
    /\ UNCHANGED <<streamVars, chatVars>>

\* Hub.JoinRoom, called for a client whose connection is being read
JoinRoom(c, r) ==
    /\ ~panicked
    /\ pumps[c] \in {"both", "reader"}
    /\ rooms' = (r :> ((IF r \in DOMAIN rooms THEN rooms[r] ELSE {}) \cup {c})) @@ rooms
    /\ clientRooms' = [clientRooms EXCEPT ![c] = @ \cup {r}]
    /\ hubLast' = HubOp("other", "", "", {})
    /\ UNCHANGED <<clients, send, closed, pumps, written, msgs, owed, panicked>>
    /\ UNCHANGED <<streamVars, chatVars>>

\* rooms with client c deleted from room r, and r dropped when it gets empty
RemoveFromRoom(rms, r, c) ==
    IF r \notin DOMAIN rms THEN rms
    ELSE IF rms[r] \ {c} = {}
         THEN [x \in DOMAIN rms \ {r} |-> rms[x]]
         ELSE [rms EXCEPT ![r] = @ \ {c}]

\* Hub.LeaveRoom
LeaveRoom(c, r) ==
    /\ ~panicked
    /\ pumps[c] \in {"both", "reader"}
    /\ rooms' = RemoveFromRoom(rooms, r, c)
    /\ clientRooms' = [clientRooms EXCEPT ![c] = @ \ {r}]
    /\ hubLast' = HubOp("other", "", "", {})
    /\ UNCHANGED <<clients, send, closed, pumps, written, msgs, owed, panicked>>
    /\ UNCHANGED <<streamVars, chatVars>>

\* a broadcast loop that stops at the first client it evicts: no client gets
\* the message when some client's buffer is full
FanOutStopsAtEviction(visited, m) ==
    /\ send' = [c \in Clients |->
                  IF c \in visited /\ ~Full(c) /\ ~(\E x \in visited : Full(x))
                  THEN Enqueue(send[c], m) ELSE send[c]]
    /\ closed' = [c \in Clients |-> closed[c] \/ (c \in visited /\ Full(c))]
    /\ clients' = clients \ {c \in visited : Full(c)}

\* The loop body of a broadcast run over the clients in visited: a client with
\* room in its buffer gets message m, a client with a full buffer has its
\* channel closed and is deleted from Hub.clients
FanOut(visited, m) ==
    /\ send' = [c \in Clients |->
                  IF c \in visited /\ ~Full(c) THEN Enqueue(send[c], m) ELSE send[c]]
    /\ closed' = [c \in Clients |-> closed[c] \/ (c \in visited /\ Full(c))]
    /\ clients' = clients \ {c \in visited : Full(c)}

\* The clients a broadcast over the set members gets to. A send on a closed
\* channel panics: the loop then stops at the first closed client it meets,
\* after any of the other clients (a Go map is ranged over in any order)
Visits(members) ==
    IF \E c \in members : closed[c]
    THEN SUBSET {c \in members : ~closed[c]}
    ELSE {members}

\* Hub.BroadcastToRoom, while fewer than max messages have been broadcast
BroadcastToRoomUpTo(r, max) ==
    /\ ~panicked
    /\ msgs < max
    /\ msgs' = msgs + 1
    /\ IF r \notin DOMAIN rooms
       THEN /\ hubLast' = HubOp("room", "", r, {})
            /\ UNCHANGED <<clients, rooms, send, closed, panicked, owed>>
       ELSE \E visited \in Visits(rooms[r]) :
              LET evicted == {c \in visited : Full(c)}
                  m == Message(msgs + 1, r)
              IN /\ FanOut(visited, m)
                 /\ rooms' = [rooms EXCEPT ![r] = @ \ evicted]
                 /\ panicked' = (\E c \in rooms[r] : closed[c])
                 /\ owed' = [c \in Clients |->
                               IF c \in rooms[r] THEN Append(owed[c], m) ELSE owed[c]]
                 /\ hubLast' = HubOp("room", "", r, evicted)
    /\ UNCHANGED <<clientRooms, pumps, written>>
    /\ UNCHANGED <<streamVars, chatVars>>

BroadcastToRoom(r) == BroadcastToRoomUpTo(r, MaxMsgs)

\* Client.readPump reads a message from client c's socket and hands it to
\* Hub.Run, which runs Hub.broadcastMessage, while fewer than max messages
\* have been broadcast
BroadcastAllUpTo(c, max) ==
    /\ ~panicked
    /\ pumps[c] \in {"both", "reader"}
    /\ msgs < max
    /\ msgs' = msgs + 1
    /\ \E visited \in Visits(clients) :
         LET m == Message(msgs + 1, AllClients)
         IN /\ FanOut(visited, m)
            /\ panicked' = (\E x \in clients : closed[x])
            /\ owed' = [x \in Clients |->
                          IF x \in clients THEN Append(owed[x], m) ELSE owed[x]]
            /\ hubLast' = HubOp("all", "", "", {x \in visited : Full(x)})
    /\ UNCHANGED <<rooms, clientRooms, pumps, written>>
    /\ UNCHANGED <<streamVars, chatVars>>

BroadcastAll(c) == BroadcastAllUpTo(c, MaxMsgs)

\* Client.writePump takes the next message of the channel and writes it to
\* the socket
WritePump(c) ==
    /\ ~panicked
    /\ pumps[c] \in {"both", "writer"}
    /\ send[c] # <<>>
    /\ written' = [written EXCEPT ![c] = Append(@, Head(send[c]))]
    /\ send' = [send EXCEPT ![c] = Tail(@)]
    /\ hubLast' = HubOp("other", "", "", {})
    /\ UNCHANGED <<clients, rooms, clientRooms, closed, pumps, msgs, owed, panicked>>
    /\ UNCHANGED <<streamVars, chatVars>>

\* Client.writePump returns: the channel is closed and drained, or the write
\* to the socket failed (the message taken is lost). It closes the connection
WritePumpReturns(c) ==
    /\ ~panicked
    /\ pumps[c] \in {"both", "writer"}
    /\ \/ closed[c] /\ send[c] = <<>> /\ UNCHANGED send
       \/ send[c] # <<>> /\ send' = [send EXCEPT ![c] = Tail(@)]
    /\ pumps' = [pumps EXCEPT ![c] = IF @ = "both" THEN "reader" ELSE "done"]
    /\ hubLast' = HubOp("other", "", "", {})
    /\ UNCHANGED <<clients, rooms, clientRooms, closed, written, msgs, owed, panicked>>
    /\ UNCHANGED <<streamVars, chatVars>>

\* an unregisterClient that leaves a room it emptied in Hub.rooms
unregisterClient_KeepsEmptyRooms(c) ==
    IF c \in clients
    THEN /\ clients' = clients \ {c}
         /\ closed' = [closed EXCEPT ![c] = TRUE]
         /\ panicked' = closed[c]
         /\ rooms' = [r \in DOMAIN rooms |->
                        IF r \in clientRooms[c] THEN rooms[r] \ {c} ELSE rooms[r]]
    ELSE UNCHANGED <<clients, closed, panicked, rooms>>

\* Hub.unregisterClient
unregisterClient(c) ==
    IF c \in clients
    THEN /\ clients' = clients \ {c}
         /\ closed' = [closed EXCEPT ![c] = TRUE]
         /\ panicked' = closed[c]
         /\ rooms' = [r \in {x \in DOMAIN rooms :
                              ~(x \in clientRooms[c] /\ rooms[x] \ {c} = {})} |->
                        IF r \in clientRooms[c] THEN rooms[r] \ {c} ELSE rooms[r]]
    ELSE UNCHANGED <<clients, closed, panicked, rooms>>

\* Client.readPump returns (the peer went away, or writePump closed the
\* connection) and hands the client to Hub.Run for Hub.unregisterClient
ReadPumpReturns(c) ==
    /\ ~panicked
    /\ pumps[c] \in {"both", "reader"}
    /\ unregisterClient(c)
    /\ pumps' = [pumps EXCEPT ![c] = IF @ = "both" THEN "writer" ELSE "done"]
    /\ hubLast' = HubOp("unregister", c, "", {})
    /\ UNCHANGED <<clientRooms, send, written, msgs, owed>>
    /\ UNCHANGED <<streamVars, chatVars>>

\* Hub.Close: the channel of every registered client is closed and its
\* connection is closed; no client is deleted from Hub.clients. Closing a
\* channel that is closed already panics
HubClose ==
    /\ ~panicked
    /\ \E visited \in Visits(clients) :
         closed' = [c \in Clients |-> closed[c] \/ c \in visited]
    /\ panicked' = (\E c \in clients : closed[c])
    /\ hubLast' = HubOp("close", "", "", {})
    /\ UNCHANGED <<clients, rooms, clientRooms, send, pumps, written, msgs, owed>>
    /\ UNCHANGED <<streamVars, chatVars>>

NextHub ==
    \/ \E c \in Clients : HandleWebSocket(c)
    \/ \E c \in Clients, r \in Rooms : JoinRoom(c, r)
    \/ \E c \in Clients, r \in Rooms : LeaveRoom(c, r)
    \/ \E r \in Rooms : BroadcastToRoom(r)
    \/ \E c \in Clients : BroadcastAll(c)
    \/ \E c \in Clients : WritePump(c)
    \/ \E c \in Clients : WritePumpReturns(c)
    \/ \E c \in Clients : ReadPumpReturns(c)

\* The hub serving clients that read nothing from their sockets, for one
\* broadcast more than NextHub follows
NextEvict ==
    \/ \E c \in Clients : HandleWebSocket(c)
    \/ \E c \in Clients, r \in Rooms : JoinRoom(c, r)
    \/ \E c \in Clients, r \in Rooms : LeaveRoom(c, r)
    \/ \E r \in Rooms : BroadcastToRoomUpTo(r, MaxMsgs + 1)
    \/ \E c \in Clients : BroadcastAllUpTo(c, MaxMsgs + 1)
    \/ \E c \in Clients : ReadPumpReturns(c)

\* The hub with its shutdown
NextHubClose ==
    \/ NextHub
    \/ HubClose

-----------------------------------------------------------------------------
(* Chatroom Service (chat-service, chat_service.go and its DynamoDB repository) *)

Users == {"u1", "u2"}
ChatroomIDs == {"R1", "R2"}
\* the gRPC handlers that can run at the same time
Handlers == {"h1", "h2"}

\* models.Chatroom, with the fields membership reads or writes
Chatroom(creator, members) == [creator_id |-> creator, member_ids |-> members]

\* the loop "for _, memberID := range chatroom.MemberIDs" that looks for userID
HasMember(members, userID) == \E i \in 1..Len(members) : members[i] = userID

\* dynamoDBRepository.RemoveMemberFromChatroom: the list it builds from the
\* item it read, every entry of userID left out
WithoutMember(members, userID) == SelectSeq(members, LAMBDA x : x # userID)

\* a membership test that only looks whether the chatroom exists
IsUserMemberOfChatroom_RoomOnly(chatroomID, userID) == chatroomID \in DOMAIN chatrooms

\* dynamoDBRepository.IsUserMemberOfChatroom
IsUserMemberOfChatroom(chatroomID, userID) ==
    /\ chatroomID \in DOMAIN chatrooms
    /\ HasMember(chatrooms[chatroomID].member_ids, userID)

\* dynamoDBRepository.GetUserChatrooms: scan with contains(member_ids, userID)
GetUserChatrooms(userID) ==
    {r \in DOMAIN chatrooms : HasMember(chatrooms[r].member_ids, userID)}

Idle == [op |-> "idle", room |-> "", user |-> "", members |-> <<>>, type |-> ""]
\* The answer to an RPC; for a message RPC, fault names the call it made that
\* failed, limit is the limit asked for and list the messages returned
MsgStatus(op, r, u, code, fault, limit, list) ==
    [op |-> op, room |-> r, user |-> u, code |-> code, fault |-> fault,
     limit |-> limit, list |-> list]

ChatStatus(op, r, u, code) == MsgStatus(op, r, u, code, "", 0, <<>>)

\* models.Message: created_at is the clock reading at, unique to the message
ChatMessage(room, user, type, content, at) ==
    [room |-> room, user |-> user, type |-> type, content |-> content, at |-> at]

\* the system message JoinChatroom / LeaveChatroom write for user u
SystemMessage(r, u, what, at) == ChatMessage(r, "system", "system", <<u, what>>, at)

\* messageTypeFromProto
messageTypeFromProto(protoType) ==
    CASE protoType = "TEXT" -> "text"
      [] protoType = "IMAGE" -> "image"
      [] protoType = "FILE" -> "file"
      [] protoType = "SYSTEM" -> "system"
      [] OTHER -> "text"

\* message.CreatedAt.Unix(): whole seconds of a clock reading in half seconds
Unix(at) == at \div 2

\* a 0-based Redis index into n elements, negative ones counting from the end
RedisIndex(i, n) == IF i < 0 THEN n + i ELSE i

InsertAt(z, p, m) == SubSeq(z, 1, p - 1) \o <<m>> \o SubSeq(z, p, Len(z))

\* ZADD with score Unix(created_at): the member goes after the lower scores
\* and before the higher ones; among members of equal score Redis orders by
\* the bytes of the member, the JSON text that starts with the random id
ZAdd(z, m) ==
    {InsertAt(z, p, m) : p \in {q \in 1..(Len(z) + 1) :
        /\ \A i \in 1..(q - 1) : Unix(z[i].at) <= Unix(m.at)
        /\ \A i \in q..Len(z) : Unix(z[i].at) >= Unix(m.at)}}

\* ZREMRANGEBYRANK key start stop
ZRemRangeByRank(z, start, stop) ==
    LET n == Len(z)
        lo == IF RedisIndex(start, n) < 0 THEN 0 ELSE RedisIndex(start, n)
        hi == IF RedisIndex(stop, n) > n - 1 THEN n - 1 ELSE RedisIndex(stop, n)
    IN IF lo > hi THEN z ELSE SubSeq(z, 1, lo) \o SubSeq(z, hi + 2, n)

Reverse(z) == [i \in 1..Len(z) |-> z[Len(z) + 1 - i]]

\* ZREVRANGE key start stop
ZRevRange(z, start, stop) ==
    LET n == Len(z)
        lo == IF RedisIndex(start, n) < 0 THEN 0 ELSE RedisIndex(start, n)
        hi == IF RedisIndex(stop, n) > n - 1 THEN n - 1 ELSE RedisIndex(stop, n)
    IN IF lo > hi THEN <<>> ELSE SubSeq(Reverse(z), lo + 1, hi + 1)

\* redisRepository.CacheMessage: the sorted sets it can leave for message m;
\* the outcome of the trim is not looked at (trimmed tells whether it ran)
CacheMessage(m, trimmed) ==
    {[cache EXCEPT ![m.room] =
        IF trimmed THEN ZRemRangeByRank(z, 0, -(CacheCap + 1)) ELSE z] :
     z \in ZAdd(cache[m.room], m)}

\* redisRepository.GetCachedMessages
GetCachedMessages(chatroomID, limit) == ZRevRange(cache[chatroomID], 0, limit - 1)

\* the clock readings a message made now can carry
Later == {chatNow + 1, chatNow + 2}

\* dynamoDBRepository.CreateMessage of a system message, its failure only
\* logged: the table and the clock after it
CreateSystemMessage(r, u, what) ==
    \E ok \in BOOLEAN :
        IF ok
        THEN /\ messages' = messages \cup {SystemMessage(r, u, what, chatNow + 1)}
             /\ chatNow' = chatNow + 1
        ELSE UNCHANGED <<messages, chatNow>>

InitChat ==
    /\ messages = {}
    /\ cache = [r \in ChatroomIDs |-> <<>>]
    /\ chatNow = 1
    /\ chatrooms = <<>>
    /\ calls = [h \in Handlers |-> Idle]
    /\ started = 0
    /\ latest = [r \in ChatroomIDs, u \in Users |-> "none"]
    /\ chatLast = ChatStatus("init", "", "", "")

\* ChatService.CreateChatroom: the creator is the first member
CreateChatroom(h, r, u) ==
    /\ started < MaxCalls
    /\ started' = started + 1
    /\ calls[h] = Idle
    /\ r \notin DOMAIN chatrooms
    /\ \E userOk, dOk \in BOOLEAN :
         IF ~userOk
         THEN /\ chatLast' = ChatStatus("create", r, u, "NotFound")
              /\ UNCHANGED chatrooms
         ELSE IF ~dOk
         THEN /\ chatLast' = ChatStatus("create", r, u, "Internal")
              /\ UNCHANGED chatrooms
         ELSE /\ chatrooms' = (r :> Chatroom(u, <<u>>)) @@ chatrooms
              /\ chatLast' = ChatStatus("create", r, u, "OK")
    /\ UNCHANGED <<calls, latest, msgVars>>
    /\ UNCHANGED <<streamVars, hubVars>>

\* ChatService.JoinChatroom up to its membership test: GetUser, GetChatroom
\* and the scan of the member list it read
JoinChatroom(h, r, u) ==
    /\ started < MaxCalls
    /\ started' = started + 1
    /\ calls[h] = Idle
    /\ \E userOk, dOk \in BOOLEAN :
         IF ~userOk \/ ~dOk \/ r \notin DOMAIN chatrooms
         THEN /\ chatLast' = ChatStatus("join", r, u, "NotFound")
              /\ UNCHANGED calls
         ELSE IF HasMember(chatrooms[r].member_ids, u)
         THEN /\ chatLast' = ChatStatus("join", r, u, "AlreadyExists")
              /\ UNCHANGED calls
         ELSE /\ calls' = [calls EXCEPT ![h] =
                             [op |-> "join", room |-> r, user |-> u, members |-> <<>>,
                              type |-> ""]]
              /\ UNCHANGED chatLast
    /\ UNCHANGED <<chatrooms, latest, msgVars>>
    /\ UNCHANGED <<streamVars, hubVars>>

\* dynamoDBRepository.AddMemberToChatroom: one UpdateItem that appends userID
\* to the stored list
AddMemberToChatroom(chatroomID, userID) ==
    chatrooms' = [chatrooms EXCEPT ![chatroomID].member_ids = Append(@, userID)]

\* ChatService.JoinChatroom from AddMemberToChatroom on
JoinChatroomAdd(h) ==
    /\ calls[h].op = "join"
    /\ \E dOk \in BOOLEAN :
         IF ~dOk
         THEN /\ chatLast' = ChatStatus("join", calls[h].room, calls[h].user, "Internal")
              /\ UNCHANGED <<chatrooms, latest, messages, chatNow>>
         ELSE /\ AddMemberToChatroom(calls[h].room, calls[h].user)
              /\ CreateSystemMessage(calls[h].room, calls[h].user, "joined")
              /\ latest' = [latest EXCEPT ![calls[h].room, calls[h].user] = "joined"]
              /\ chatLast' = ChatStatus("join", calls[h].room, calls[h].user, "OK")
    /\ calls' = [calls EXCEPT ![h] = Idle]
    /\ UNCHANGED <<started, cache>>
    /\ UNCHANGED <<streamVars, hubVars>>

\* ChatService.LeaveChatroom up to the read of RemoveMemberFromChatroom:
\* GetUser, GetChatroom and the list built from the item read
LeaveChatroom(h, r, u) ==
    /\ started < MaxCalls
    /\ started' = started + 1
    /\ calls[h] = Idle
    /\ \E userOk, dOk \in BOOLEAN :
         IF ~userOk
         THEN /\ chatLast' = ChatStatus("leave", r, u, "NotFound")
              /\ UNCHANGED calls
         ELSE IF ~dOk \/ r \notin DOMAIN chatrooms
         THEN /\ chatLast' = ChatStatus("leave", r, u, "Internal")
              /\ UNCHANGED calls
         ELSE /\ calls' = [calls EXCEPT ![h] =
                             [op |-> "leave", room |-> r, user |-> u,
                              members |-> WithoutMember(chatrooms[r].member_ids, u),
                              type |-> ""]]
              /\ UNCHANGED chatLast
    /\ UNCHANGED <<chatrooms, latest, msgVars>>
    /\ UNCHANGED <<streamVars, hubVars>>

\* ChatService.LeaveChatroom from the UpdateItem of RemoveMemberFromChatroom
\* on: member_ids is set to the list built before
LeaveChatroomSet(h) ==
    /\ calls[h].op = "leave"
    /\ \E dOk \in BOOLEAN :
         IF ~dOk
         THEN /\ chatLast' = ChatStatus("leave", calls[h].room, calls[h].user, "Internal")
              /\ UNCHANGED <<chatrooms, latest, messages, chatNow>>
         ELSE /\ chatrooms' = [chatrooms EXCEPT
                                 ![calls[h].room].member_ids = calls[h].members]
              /\ CreateSystemMessage(calls[h].room, calls[h].user, "left")
              /\ latest' = [latest EXCEPT ![calls[h].room, calls[h].user] = "left"]
              /\ chatLast' = ChatStatus("leave", calls[h].room, calls[h].user, "OK")
    /\ calls' = [calls EXCEPT ![h] = Idle]
    /\ UNCHANGED <<started, cache>>
    /\ UNCHANGED <<streamVars, hubVars>>

NextChat ==
    \/ \E h \in Handlers, r \in ChatroomIDs, u \in Users : CreateChatroom(h, r, u)
    \/ \E h \in Handlers, r \in ChatroomIDs, u \in Users : JoinChatroom(h, r, u)
    \/ \E h \in Handlers : JoinChatroomAdd(h)
    \/ \E h \in Handlers, r \in ChatroomIDs, u \in Users : LeaveChatroom(h, r, u)
    \/ \E h \in Handlers : LeaveChatroomSet(h)

-----------------------------------------------------------------------------
(* Chatroom Service: messages (SendMessage, GetMessages) *)

\* SendMessageRequest.Type as it comes off the wire
ProtoTypes == {"TEXT", "SYSTEM", "UNRECOGNIZED"}
\* GetMessagesRequest.Limit: none, one, and more than there are messages
Limits == {0, 1, MaxCalls}

\* the orders in which a Scan can meet the items of the message table
TableOrders ==
    {f \in [1..Cardinality(messages) -> messages] :
        \A i, j \in 1..Cardinality(messages) : i # j => f[i] # f[j]}

\* dynamoDBRepository.GetMessages: a Scan that looks at the first limit items
\* of the table and keeps those of the chatroom
ScanMessages(chatroomID, limit) ==
    {SelectSeq(SubSeq(f, 1, IF limit < Len(f) THEN limit ELSE Len(f)),
               LAMBDA m : m.room = chatroomID) : f \in TableOrders}

\* ChatService.SendMessage up to its membership test
SendMessage(h, r, u, protoType) ==
    /\ started < MaxCalls
    /\ started' = started + 1
    /\ calls[h] = Idle
    /\ \E fault \in {"none", "user", "member"} :
         LET reply(code) == MsgStatus("send", r, u, code, fault, 0, <<>>)
         IN IF fault = "user"
            THEN chatLast' = reply("NotFound") /\ UNCHANGED calls
            ELSE IF fault = "member" \/ r \notin DOMAIN chatrooms
            THEN chatLast' = reply("Internal") /\ UNCHANGED calls
            ELSE IF ~IsUserMemberOfChatroom(r, u)
            THEN chatLast' = reply("PermissionDenied") /\ UNCHANGED calls
            ELSE /\ calls' = [calls EXCEPT ![h] =
                                [op |-> "send", room |-> r, user |-> u, members |-> <<>>,
                                 type |-> messageTypeFromProto(protoType)]]
                 /\ UNCHANGED chatLast
    /\ UNCHANGED <<chatrooms, latest, messages, cache, chatNow>>
    /\ UNCHANGED <<streamVars, hubVars>>

\* ChatService.SendMessage from CreateMessage on: the message goes to the
\* table, then to the cache (a cache failure is only logged)
SendMessagePut(h) ==
    /\ calls[h].op = "send"
    /\ \E fault \in {"none", "put", "cache", "trim"}, at \in Later :
         LET r == calls[h].room
             u == calls[h].user
             m == ChatMessage(r, u, calls[h].type, "hi", at)
         IN IF fault = "put"
            THEN /\ chatLast' = MsgStatus("send", r, u, "Internal", fault, 0, <<>>)
                 /\ UNCHANGED <<messages, cache, chatNow>>
            ELSE /\ messages' = messages \cup {m}
                 /\ chatNow' = at
                 /\ cache' \in IF fault = "cache" THEN {cache}
                                ELSE CacheMessage(m, fault # "trim")
                 /\ chatLast' = MsgStatus("send", r, u, "OK", fault, 0, <<m>>)
    /\ calls' = [calls EXCEPT ![h] = Idle]
    /\ UNCHANGED <<chatrooms, started, latest>>
    /\ UNCHANGED <<streamVars, hubVars>>

\* ChatService.GetMessages: the cache first, the table when the cache read
\* fails
GetMessages(r, u, limit) ==
    /\ started < MaxCalls
    /\ started' = started + 1
    /\ \E fault \in {"none", "user", "member", "cache", "scan"} :
         LET reply(code, list) == MsgStatus("get", r, u, code, fault, limit, list)
         IN IF fault = "user"
            THEN chatLast' = reply("NotFound", <<>>)
            ELSE IF fault = "member" \/ ~IsUserMemberOfChatroom(r, u)
            THEN chatLast' = reply("PermissionDenied", <<>>)
            ELSE IF fault \notin {"cache", "scan"}
            THEN chatLast' = reply("OK", GetCachedMessages(r, limit))
            ELSE IF fault = "scan" \/ limit < 1
            THEN chatLast' = reply("Internal", <<>>)
            ELSE \E list \in ScanMessages(r, limit) : chatLast' = reply("OK", list)
    /\ UNCHANGED <<chatrooms, calls, latest, messages, cache, chatNow>>
    /\ UNCHANGED <<streamVars, hubVars>>

\* the Chatroom Service with its message RPCs
NextMessages ==
    \/ \E h \in Handlers, r \in ChatroomIDs, u \in Users : CreateChatroom(h, r, u)
    \/ \E h \in Handlers, r \in ChatroomIDs, u \in Users : JoinChatroom(h, r, u)
    \/ \E h \in Handlers : JoinChatroomAdd(h)
    \/ \E h \in Handlers, r \in ChatroomIDs, u \in Users : LeaveChatroom(h, r, u)
    \/ \E h \in Handlers : LeaveChatroomSet(h)
    \/ \E h \in Handlers, r \in ChatroomIDs, u \in Users, t \in ProtoTypes :
          SendMessage(h, r, u, t)
    \/ \E h \in Handlers : SendMessagePut(h)
    \/ \E r \in ChatroomIDs, u \in Users, limit \in Limits : GetMessages(r, u, limit)

-----------------------------------------------------------------------------
(* Specifications: each service runs with the others at rest *)

\* the services freshly started
Init == InitStream /\ InitHub /\ InitChat

SpecStream == Init /\ [][NextStream]_vars

\* the ticker of the cleanup task keeps firing
SpecReaper == Init /\ [][NextReaper]_vars /\ WF_vars(CleanupTask)

\* requests that arrive while an update of a stream is between read and put
SpecUpdates == Init /\ [][NextUpdates]_vars

\* ingest after ingest on the same keys: MaxOps + 3 webhooks are followed
InitIngest == InitStreamWith(MaxOps + 3) /\ InitHub /\ InitChat

SpecIngest == InitIngest /\ [][NextIngest]_vars

SpecShutdown == Init /\ [][NextShutdown]_vars

SpecHub == Init /\ [][NextHub]_vars

\* a reader whose connection the writer closed gets the read error and
\* returns, and Hub.Run takes the client it hands over
SpecHubFair ==
    Init /\ [][NextHub]_vars /\ \A c \in Clients : WF_vars(ReadPumpReturns(c))

SpecEvict == Init /\ [][NextEvict]_vars

SpecHubClose == Init /\ [][NextHubClose]_vars

SpecChat == Init /\ [][NextChat]_vars

SpecMessages == Init /\ [][NextMessages]_vars

-----------------------------------------------------------------------------
(* Properties of the Stream Lifecycle Controller *)

\* C1: for each user at most one stream has status = live, in every state
\* reached by Authenticate, StreamStarted, StreamEnded, the CreateStream and
\* UpdateStream RPCs and the reaper.
C1_OneLiveStreamPerUser ==
    \A i, j \in StreamIDs :
        (/\ i # j
         /\ streams[i].status = "live"
         /\ streams[j].status = "live") => streams[i].user_id # streams[j].user_id

\* a step that takes a status backwards in pending -> live -> ended | error
Backwards(old, new) ==
    \/ old \in {"ended", "error"} /\ new \in {"live", "pending"}
    \/ old = "live" /\ new = "pending"

\* C2: no step (UpdateStream RPC, StreamEnded, EndStream RPC,
\* RecordingCompleted, UpdateViewerCount, reaper) moves a stream that is ended
\* or error back to live or pending, or a live stream back to pending.
C2_StatusOnlyAdvances ==
    [][\A i \in StreamIDs : ~Backwards(streams[i].status, streams'[i].status)]_vars

Abs(x) == IF x < 0 THEN -x ELSE x

\* C3: every ended stream has both timestamps and a duration_seconds within
\* one second of ended_at - started_at, whichever operation ended it.
C3_DurationMatchesTimestamps ==
    \A i \in StreamIDs :
        streams[i].status = "ended" =>
            /\ streams[i].started_at # NoTime
            /\ streams[i].ended_at # NoTime
            /\ Abs(streams[i].duration - (streams[i].ended_at - streams[i].started_at)) <= 1

\* C7: StreamStarted is idempotent within a session: a call for a session that
\* already carries a stream_id answers with that stream_id and adds no stream
\* record.
C7_StreamStartedIdempotent ==
    [][(/\ last'.op = "started"
        /\ last'.code = "200"
        /\ last'.pre # NoStream) => (last'.sid = last'.pre /\ streams' = streams)]_vars

\* C8: a stream_key resolves to exactly one stream record: no two records
\* carry the same stream_key.
C8_StreamKeyUnique ==
    \A i, j \in StreamIDs : i # j => streams[i].stream_key # streams[j].stream_key

\* C9: when the User directory answers that the key is invalid, POST /rtmp/auth
\* answers 403 and leaves the sessions as they were; and no Authenticate
\* request, whatever its outcome, changes the stream records.
C9_InvalidKeyDenied ==
    [][last'.op = "auth" =>
         /\ streams' = streams
         /\ last'.dir = "invalid" => (last'.code = "403" /\ sessions' = sessions)]_vars

\* C9 witness: an Authenticate request the directory answered "invalid" got 403
C9_Witness ==
    /\ last.op = "auth"
    /\ last.dir = "invalid"
    /\ last.code = "403"
    /\ last.key \notin DOMAIN sessions

\* C10: when the User directory cannot be reached (transport error),
\* Authenticate answers with the retryable error 500, neither 200 nor 403, and
\* stores no session.
C10_UnreachableIsRetryable ==
    (last.op = "auth" /\ last.dir = "unreachable") =>
        (last.code = "500" /\ last.key \notin DOMAIN sessions)

\* C11: with no failures, in the sequence Authenticate(valid key),
\* StreamStarted, StreamEnded(duration 30): StreamStarted answers 200 with a
\* stream id S1 that GetActiveStreams then contains; StreamEnded answers 200,
\* after which GetStream(S1) has status ended and duration_seconds 30 and
\* GetActiveStreams no longer contains S1.
C11_IngestToLive ==
    [][/\ (/\ last'.op = "started"
            /\ faults' = 0
            /\ streams = <<>>
            /\ last'.key \in DOMAIN sessions) =>
              /\ last'.code = "200"
              /\ last'.sid # NoStream
              /\ last'.sid \in GetActiveStreams'
       /\ (/\ last'.op = "ended"
            /\ faults' = 0
            /\ Len(streams) = 1
            /\ last'.key \in DOMAIN sessions
            /\ sessions[last'.key].stream_id = 1
            /\ streams[1].stream_key = last'.key
            /\ 1 \in GetActiveStreams) =>
              /\ last'.code = "200"
              /\ last'.sid = 1
              /\ GetStream(1)'.ok
              /\ GetStream(1)'.rec.status = "ended"
              /\ last'.dur = [kind |-> "num", val |-> 30] =>
                    GetStream(1)'.rec.duration = 30
              /\ 1 \notin GetActiveStreams']_vars

\* C11 witness: the three requests were served without a failure, the last of
\* them a StreamEnded with duration 30 that ended the stream StreamStarted made
C11_Witness ==
    /\ last.op = "ended"
    /\ last.code = "200"
    /\ last.dur = [kind |-> "num", val |-> 30]
    /\ faults = 0
    /\ budget = MaxOps - 3
    /\ Len(streams) = 1
    /\ last.sid = 1
    /\ GetStream(1).rec.status = "ended"
    /\ GetStream(1).rec.duration = 30

\* a live stream the reaper's expiry test selects
ExpiredLive(i) ==
    /\ i \in StreamIDs
    /\ streams[i].status = "live"
    /\ Expired(streams[i])

\* what a sweep owes to the streams that were live and expired when it ran
SweptAll ==
    \A i \in StreamIDs :
        ExpiredLive(i) =>
            /\ streams'[i].status = "ended"
            /\ streams'[i].duration = now - streams[i].started_at
            /\ Event("stream_cleanup", i, "") \in last'.pub

C18_TimestampsMatchStatus ==
    \A i \in StreamIDs :
        /\ streams[i].status = "live" =>
              (streams[i].started_at # NoTime /\ streams[i].ended_at = NoTime)
        /\ streams[i].status = "ended" =>
              /\ streams[i].started_at # NoTime
              /\ streams[i].ended_at # NoTime
              /\ streams[i].ended_at >= streams[i].started_at

\* C22: a StreamStarted or StreamEnded whose DynamoDB put fails is answered
\* with an error, and one answered with an error has written nothing: the
\* stream items, the cache and the sessions are as before (no stream_id in the
\* session after StreamStarted, the session still there after StreamEnded),
\* and no event was published.
C22_FailedWriteAborts ==
    [][last'.op \in {"started", "ended"} =>
         /\ "dynamo_put" \in last'.failed => last'.code = "500"
         /\ last'.code # "200" =>
               /\ streams' = streams
               /\ streamData' = streamData
               /\ sessions' = sessions
               /\ last'.pub = {}]_vars

\* C22 witness: the put of a StreamEnded failed for a live stream that a
\* session pointed to; the request got 500 and the session is still there
C22_Witness ==
    /\ last.op = "ended"
    /\ "dynamo_put" \in last.failed
    /\ last.code = "500"
    /\ last.key \in DOMAIN sessions
    /\ sessions[last.key].stream_id \in StreamIDs
    /\ streams[sessions[last.key].stream_id].status = "live"
    /\ streams[sessions[last.key].stream_id].stream_key = last.key

\* the calls to the hot store (Redis) and to the event sink (Kinesis)
HotStoreOrSink == {"session_get", "session_set", "session_del", "cache_get",
                   "cache_set", "kinesis"}

\* C23: a failure of a hot-store or event-sink call fails no operation whose
\* durable path succeeds: a StreamEnded for a session whose stream is in the
\* table, and a RecordingCompleted for a stream in the table, in which only
\* such calls fail, are answered with success and have written the item; a
\* SendMessage whose CreateMessage succeeds is answered OK and the message is
\* in the table also when the cache calls fail.
C23_HotStoreFailuresNotFatal ==
    [][/\ (/\ last'.op = "ended"
            /\ last'.failed \subseteq HotStoreOrSink
            /\ last'.key \in DOMAIN sessions
            /\ sessions[last'.key].stream_id # NoStream
            /\ StreamsWithKey(last'.key) # {}) =>
              /\ last'.code = "200"
              /\ \E i \in StreamsWithKey(last'.key) : streams'[i].status = "ended"
       /\ (/\ last'.op = "recorded"
            /\ last'.failed \subseteq HotStoreOrSink
            /\ StreamsWithKey(last'.key) # {}) =>
              /\ last'.code = "200"
              /\ last'.target \in StreamsWithKey(last'.key)
       /\ (/\ last'.op = "RecordingCompleted"
            /\ last'.failed \subseteq HotStoreOrSink) =>
              last'.code \in {"OK", "NotFound"}
       /\ (/\ chatLast'.op = "send"
            /\ chatLast'.fault \in {"cache", "trim"}) =>
              /\ chatLast'.code = "OK"
              /\ chatLast'.list[1] \in messages']_vars

\* C21: a RecordingCompleted (webhook or RPC) that writes leaves the stored
\* status of the stream as it was when it wrote; of the fields of the item only
\* recording_url and updated_at change (the recording metadata is not modelled).
C21_RecordingKeepsStatus ==
    [][(/\ last'.op \in {"recorded", "RecordingCompleted"}
        /\ last'.target # NoStream) =>
          /\ streams'[last'.target].status = streams[last'.target].status
          /\ streams'[last'.target] =
               [streams[last'.target] EXCEPT
                  !.recording_url = streams'[last'.target].recording_url,
                  !.updated_at = streams'[last'.target].updated_at]]_vars

\* stream i is live, started more than 12h ago and last updated more than 1h
\* ago
LiveOldAndIdle(i) ==
    /\ streams[i].status = "live"
    /\ streams[i].started_at # NoTime
    /\ now - streams[i].started_at > 43200
    /\ now - streams[i].updated_at > 3600

\* C32: a reaper sweep changes only expired streams: a stream that is not
\* live, or started at most 12h ago, or was updated within the last hour, has
\* the same item and the same cache entry after the sweep as before, and the
\* table holds the same streams.
C32_SweepLeavesOthers ==
    [][last'.op = "cleanup" =>
         /\ Len(streams') = Len(streams)
         /\ \A i \in StreamIDs :
              ~LiveOldAndIdle(i) =>
                 /\ streams'[i] = streams[i]
                 /\ (i \in DOMAIN streamData') = (i \in DOMAIN streamData)
                 /\ i \in DOMAIN streamData => streamData'[i] = streamData[i]]_vars

\* C32 witness: a sweep has just ended one stream, live for more than 12h, and
\* has left live another one that was started later
C32_Witness ==
    /\ last.op = "cleanup"
    /\ \E i, j \in StreamIDs :
         /\ Event("stream_cleanup", i, "") \in last.pub
         /\ streams[i].status = "ended"
         /\ streams[i].ended_at = now
         /\ streams[j].status = "live"
         /\ streams[j].started_at > streams[i].started_at

\* C33: when a stream is ended, by a StreamEnded answered 200 or by a reaper
\* sweep, the session stored for its stream key is purged: after the step the
\* hot store holds no session for that key.
C33_EndedStreamHasNoSession ==
    [][/\ (last'.op = "ended" /\ last'.code = "200") =>
              last'.key \notin DOMAIN sessions'
       /\ last'.op = "cleanup" =>
              \A i \in StreamIDs :
                 (streams[i].status = "live" /\ streams'[i].status = "ended") =>
                     streams[i].stream_key \notin DOMAIN sessions']_vars

\* C40: an Authenticate answered 200 for a key whose session holds a stream
\* id leaves that stream id in the session.
C40_AuthenticateKeepsStreamID ==
    [][(/\ last'.op = "auth"
        /\ last'.code = "200"
        /\ last'.key \in DOMAIN sessions
        /\ sessions[last'.key].stream_id # NoStream) =>
          /\ last'.key \in DOMAIN sessions'
          /\ sessions'[last'.key].stream_id = sessions[last'.key].stream_id]_vars

\* C39: a StreamEnded answered 200 ends the stream whose id the session
\* holds and the response returns, and changes no other stream: an earlier,
\* ended stream of the same key keeps its ended_at and its duration.
C39_EndsSessionStream ==
    [][(last'.op = "ended" /\ last'.code = "200") =>
          /\ last'.target = last'.sid
          /\ streams'[last'.sid].status = "ended"
          /\ \A i \in StreamIDs \ {last'.sid} : streams'[i] = streams[i]]_vars

\* C38: while no update is between its read and its put, the read path
\* (cache first, then the table) returns for every stream the item the table
\* holds.
C38_ReadPathAgreesWithTable ==
    pending.op = "none" =>
        \A i \in StreamIDs :
            /\ GetStreamByIDInternal(i, {}).ok
            /\ GetStreamByIDInternal(i, {}).rec = streams[i]

\* C35: once main has received the shutdown signal, the cleanup task makes
\* no further sweep.
C35_NoSweepAfterSignal ==
    [][main # "serving" => ~CleanupTask]_vars

\* C34: a StreamEnded for a key that has no session, while a live stream with
\* that key is in the table and no call fails, ends that stream (found by its
\* key) and is answered 200.
C34_EndedWithoutSession ==
    [][(/\ last'.op = "ended"
        /\ last'.failed = {}
        /\ last'.key \notin DOMAIN sessions
        /\ \E i \in StreamsWithKey(last'.key) : streams[i].status = "live") =>
          /\ last'.code = "200"
          /\ \E i \in StreamsWithKey(last'.key) :
                streams[i].status = "live" /\ streams'[i].status = "ended"]_vars

\* C28: a StreamEnded or EndStream RPC for a stream whose stored status is not
\* live is rejected with failed_precondition, and leaves the status, ended_at
\* and duration_seconds of that stream as they were.
C28_EndingNonLiveRejected ==
    [][last'.op \in {"ended", "EndStream"} =>
         \A i \in StreamIDs :
            streams[i].status # "live" =>
                /\ last'.target = i => last'.code = "FailedPrecondition"
                /\ streams'[i].status = streams[i].status
                /\ streams'[i].ended_at = streams[i].ended_at
                /\ streams'[i].duration = streams[i].duration]_vars

\* C29: an update computed from a stale read never overwrites a newer record:
\* the put of an update whose item is no longer the one it read leaves the
\* stored item as it is; so when a StreamEnded or a sweep ended the stream
\* between the read and the put of an UpdateViewerCount, UpdateStream RPC or
\* RecordingCompleted, the stored status stays ended.
C29_StaleUpdateNeverWins ==
    [][(pending.op # "none" /\ pending'.op = "none") =>
         /\ streams[pending.id] # pending.read =>
               streams'[pending.id] = streams[pending.id]
         /\ (/\ pending.read.status = "live"
              /\ streams[pending.id].status = "ended") =>
               streams'[pending.id].status = "ended"]_vars

-----------------------------------------------------------------------------
(* Properties of the fan-out hub *)

\* a client whose connection is served and whose channel is open
Connected(c) == c \in clients /\ ~closed[c] /\ pumps[c] = "both"

\* what a client got so far, in the order it got it: the messages its writer
\* took from the channel, then the messages waiting in the channel
Received(c) == written[c] \o send[c]

C5_EvictedFromEveryRoom ==
    \A c \in hubLast.evicted :
        /\ c \notin clients
        /\ \A r \in DOMAIN rooms : c \notin rooms[r]

\* C24: after unregister(c) of a registered client, c is not in Hub.clients,
\* its send channel is closed, no room holds c and no room that c's removal
\* emptied is left in Hub.rooms; unregister of a client that is not registered
\* changes nothing.
C24_UnregisterCleansUp ==
    [][hubLast'.op = "unregister" =>
         LET c == hubLast'.client
         IN IF c \in clients
            THEN /\ ~panicked'
                 /\ c \notin clients'
                 /\ closed'[c]
                 /\ \A r \in DOMAIN rooms' : c \notin rooms'[r]
                 /\ \A r \in DOMAIN rooms :
                      (c \in rooms[r] /\ rooms[r] \ {c} = {}) => r \notin DOMAIN rooms'
                 /\ \A r \in DOMAIN rooms :
                      rooms[r] \ {c} # {} =>
                        (r \in DOMAIN rooms' /\ rooms'[r] = rooms[r] \ {c})
            ELSE /\ clients' = clients
                 /\ rooms' = rooms
                 /\ closed' = closed
                 /\ send' = send
                 /\ clientRooms' = clientRooms]_vars

\* C24 witness: before any broadcast, a client that had joined both rooms was
\* unregistered: its channel is closed, the room it shared with another client
\* is left to that client and the room it was alone in is gone
C24_Witness ==
    /\ hubLast.op = "unregister"
    /\ msgs = 0
    /\ hubLast.client \notin clients
    /\ closed[hubLast.client]
    /\ clientRooms[hubLast.client] = Rooms
    /\ \E r \in Rooms, c \in Clients :
         /\ c # hubLast.client
         /\ rooms = (r :> {c})

\* C25: in every state the two room indices agree: client c is in rooms[r] if
\* and only if r is in c.rooms, whatever joins, leaves, unregistrations and
\* broadcasts (with their evictions) came before.
C25_RoomIndicesAgree ==
    \A c \in Clients, r \in Rooms :
        (r \in DOMAIN rooms /\ c \in rooms[r]) <=> r \in clientRooms[c]

\* C26: a message read from a client's socket is put only into the channels
\* of clients that have joined a room (the room it is addressed to being one
\* of them), and only when the Chatroom Service has persisted it: a client that
\* is in no room gets no such message, and the message table is not empty.
C26_SocketMessageToRoomOnly ==
    [][hubLast'.op = "all" =>
         \A x \in Clients :
            send'[x] # send[x] =>
                /\ \E r \in DOMAIN rooms : x \in rooms[r]
                /\ messages' # {}]_vars

\* client c's writePump has returned, on a write error or a closed channel
WriterGone(c) == pumps[c] \in {"reader", "done"}

\* c is gone from Hub.clients and from every room
Unregistered(c) == c \notin clients /\ \A r \in DOMAIN rooms : c \notin rooms[r]

\* the step closes the send channel of client c: Hub.unregisterClient for a
\* registered client, an eviction by a broadcast, or Hub.Close
ClosesSend(c) ==
    \/ hubLast'.op = "unregister" /\ hubLast'.client = c /\ c \in clients
    \/ hubLast'.op \in {"all", "room"} /\ c \in hubLast'.evicted
    \/ hubLast'.op = "close" /\ c \in clients

\* C36: the send channel of a client is closed at most once, whatever the
\* order of unregistrations, evictions and Hub.Close: no step closes a channel
\* that is closed already.
C36_SendClosedOnce ==
    [][\A c \in Clients : closed[c] => ~ClosesSend(c)]_vars

\* C37: no broadcast sends on a closed channel: every client a broadcast to
\* a room, or to all clients, ranges over has its send channel open.
C37_NoSendOnClosed ==
    [][/\ (hubLast'.op = "room" /\ hubLast'.room \in DOMAIN rooms) =>
              \A c \in rooms[hubLast'.room] : ~closed[c]
       /\ hubLast'.op = "all" => \A c \in clients : ~closed[c]]_vars

\* C31: a client whose writer hit a write error or found its channel closed is
\* eventually unregistered, gone from Hub.clients and from every room, with
\* the process still running.
C31_WriterFailureUnregisters ==
    \A c \in Clients : WriterGone(c) ~> (Unregistered(c) /\ ~panicked)

\* the hub operations that run with Hub.mutex read-locked only
ReadLocked(op) == op \in {"room", "all"}

\* C30: Hub.clients, Hub.rooms and the closing of send channels change only
\* under the write lock: a broadcast to a room or to all, which holds the read
\* lock, changes no index and closes no channel.
C30_BroadcastMutatesNothing ==
    [][ReadLocked(hubLast'.op) =>
         /\ clients' = clients
         /\ rooms' = rooms
         /\ closed' = closed]_vars

-----------------------------------------------------------------------------
(* Properties of the Chatroom Service *)

\* C6: after a successful join(r, u), and as long as no leave(r, u) succeeded
\* since, u is a member of r and r is among the chatrooms listed for u; after a
\* successful leave(r, u), and as long as no join(r, u) succeeded since, u is
\* no member of r and r is not among the chatrooms listed for u.
C6_JoinLeaveMembership ==
    \A r \in ChatroomIDs, u \in Users :
        /\ latest[r, u] = "joined" =>
              /\ IsUserMemberOfChatroom(r, u)
              /\ r \in GetUserChatrooms(u)
        /\ latest[r, u] = "left" =>
              /\ ~IsUserMemberOfChatroom(r, u)
              /\ r \notin GetUserChatrooms(u)

\* C19: in every state the creator of a chatroom is among its members (a leave
\* by the creator is rejected and leaves member_ids as it was).
C19_CreatorIsMember ==
    \A r \in DOMAIN chatrooms :
        HasMember(chatrooms[r].member_ids, chatrooms[r].creator_id)

\* C20: member_ids never holds a user twice, also when two join(r, u) calls for
\* the same user run at the same time.
C20_NoDuplicateMembers ==
    \A r \in DOMAIN chatrooms :
        \A i, j \in 1..Len(chatrooms[r].member_ids) :
            i # j => chatrooms[r].member_ids[i] # chatrooms[r].member_ids[j]

-----------------------------------------------------------------------------
(* Properties of the message RPCs *)

\* a step in which an RPC was answered by the code that started it
AnsweredAtOnce == started' = started + 1 /\ calls' = calls

\* C13: a SendMessage by a user who is no member of the chatroom is answered
\* PermissionDenied (when the calls it makes succeed), never gets as far as
\* writing, and a SendMessage answered PermissionDenied leaves the message
\* table and the cache as they were.
C13_NonMemberCannotSend ==
    [][/\ \A h \in Handlers :
            (calls[h] = Idle /\ calls'[h].op = "send") =>
                /\ calls'[h].room \in DOMAIN chatrooms
                /\ HasMember(chatrooms[calls'[h].room].member_ids, calls'[h].user)
       /\ (/\ AnsweredAtOnce
            /\ chatLast'.op = "send"
            /\ chatLast'.fault = "none"
            /\ chatLast'.room \in DOMAIN chatrooms
            /\ ~HasMember(chatrooms[chatLast'.room].member_ids, chatLast'.user)) =>
                chatLast'.code = "PermissionDenied"
       /\ (/\ AnsweredAtOnce
            /\ chatLast'.op = "send"
            /\ chatLast'.code = "PermissionDenied") =>
                /\ messages' = messages
                /\ cache' = cache
                /\ ~HasMember(chatrooms[chatLast'.room].member_ids, chatLast'.user)]_vars

\* C13 witness: a user who had joined a chatroom and left it was refused a
\* SendMessage to it, while the chatroom holds messages
C13_Witness ==
    /\ chatLast.op = "send"
    /\ chatLast.code = "PermissionDenied"
    /\ latest[chatLast.room, chatLast.user] = "left"
    /\ \E m \in messages : m.room = chatLast.room

\* C14: the messages GetMessages(r, u, limit) returns to a user who joined r,
\* with a limit above the number of messages, hold the system message
\* "<u> joined the chatroom", and hold the message u sent to r last, with type
\* text, when no message came to r after it.
C14_JoinAndSendShowUp ==
    (chatLast.op = "get" /\ chatLast.code = "OK" /\ chatLast.limit = MaxCalls) =>
        LET r == chatLast.room
            u == chatLast.user
            got == {chatLast.list[i] : i \in 1..Len(chatLast.list)}
        IN /\ latest[r, u] = "joined" =>
                \E m \in got : /\ m.room = r
                               /\ m.type = "system"
                               /\ m.content = <<u, "joined">>
           /\ \A m \in messages :
                (/\ m.room = r
                 /\ m.user = u
                 /\ m.type # "system"
                 /\ \A x \in messages : x.room = r => x.at <= m.at) =>
                    (m \in got /\ m.type = "text")

\* C15: the list GetMessages returns is in ascending order of created_at,
\* from the cache and from the table alike.
C15_AscendingOrder ==
    (chatLast.op = "get" /\ chatLast.code = "OK") =>
        \A i, j \in 1..Len(chatLast.list) :
            i < j => chatLast.list[i].at <= chatLast.list[j].at

\* C27: every message in the table with type system has user_id "system": a
\* SendMessage of a member stores no message of type system under the
\* member's user_id.
C27_SystemTypeOnlyFromSystem ==
    \A m \in messages : m.type = "system" => m.user = "system"

\* the messages held by a sorted set
Held(z) == {z[i] : i \in 1..Len(z)}

\* C16: the cache of a chatroom never holds more than the cap (100 in the
\* program), and a message leaves the cache only when it is older than every
\* message that stays.
C16_CacheCapOldestOut ==
    [][\A r \in ChatroomIDs :
         /\ Len(cache'[r]) <= CacheCap
         /\ \A m \in Held(cache[r]) \ Held(cache'[r]) :
              \A x \in Held(cache'[r]) : m.at < x.at]_vars

RECURSIVE Newest(_, _)
\* the k messages of S with the latest created_at, latest first
Newest(S, k) ==
    IF k <= 0 \/ S = {} THEN <<>>
    ELSE LET m == CHOOSE x \in S : \A y \in S : y.at <= x.at
         IN <<m>> \o Newest(S \ {m}, k - 1)

\* C17: GetCachedMessages(room, limit) returns the limit most recent messages
\* of the room's cache, latest first, and so at most limit of them: none for
\* limit = 0.
C17_CacheRecent ==
    \A r \in ChatroomIDs, limit \in Limits :
        GetCachedMessages(r, limit) = Newest(Held(cache[r]), limit)

=============================================================================
